---- MODULE Spec2Model ----
(***************************************************************************)
(* JsonLogster (logster/parsers/JsonLogster.py, Python 2): a parser that   *)
(* decodes one JSON document per line, flattens it to a single-level dict  *)
(* and accumulates the flattened dicts in self.metrics; get_state turns    *)
(* the accumulated dict into a list of MetricObjects.                      *)
(*                                                                         *)
(* Python values are records [t |-> <type name>, v |-> <payload>].  Text   *)
(* (str and unicode) is a sequence of one-character strings, so that       *)
(* replace, join and str() are computed character by character.            *)
(***************************************************************************)
EXTENDS Integers, Sequences, FiniteSets, TLC

VARIABLES
    key_separator,  \* self.key_separator
    key_filter,     \* which key_filter method the instance's class has
    metrics,        \* self.metrics: flat key (text) -> Python value
    duration,       \* self.duration ("unset" until get_state sets it)
    last_call,      \* the last method called on the instance, with its argument
    last_exc,       \* the exception that call raised (NoExc when it returned)
    last_ret,       \* the list get_state returned
    old_metrics,    \* self.metrics as it was when the last call started
    history,        \* the flattened dicts of the parse_line calls that returned
    fl_call,        \* the last direct flatten_object call: its arguments
    fl_ret          \* and what it returned or raised

vars == <<key_separator, key_filter, metrics, duration, last_call, last_exc,
          last_ret, old_metrics, history, fl_call, fl_ret>>

parser_vars == <<metrics, duration, last_call, last_exc, last_ret, old_metrics, history>>

-----------------------------------------------------------------------------
(* Bounds of the model *)

\* parse_line calls that return, per behaviour
MaxLines == 2
\* get_state's duration argument ranges over 1..MaxDuration
MaxDuration == 2

-----------------------------------------------------------------------------
(* Python values *)

PyInt(n) == [t |-> "int", v |-> n]
\* a long keeps its decimal digits: it has no machine width
PyLong(digits) == [t |-> "long", v |-> digits]
\* a float keeps its literal
PyFloat(lit) == [t |-> "float", v |-> lit]
PyBool(b) == [t |-> "bool", v |-> b]
PyNone == [t |-> "NoneType", v |-> "None"]
PyUnicode(chars) == [t |-> "unicode", v |-> chars]
PyStr(chars) == [t |-> "str", v |-> chars]
\* a dict in its iteration order: a sequence of <<key, value>> with distinct keys
PyDict(items) == [t |-> "dict", v |-> items]
PyList(elems) == [t |-> "list", v |-> elems]

\* Text is made of one-character strings; "U+00E9" stands for the one character
\* e-acute, the model's character outside ASCII.
NonAscii == {"U+00E9"}

NoExc == [cls |-> "None", msg |-> "None"]
Exc(cls, msg) == [cls |-> cls, msg |-> msg]
Return(val) == [exc |-> NoExc, val |-> val]
Raise(cls, msg) == [exc |-> Exc(cls, msg), val |-> PyNone]

EmptyDict == [k \in {} |-> PyNone]

\* decimal digits of a natural number, as text
RECURSIVE Decimal(_)
Decimal(n) ==
    LET d == <<"0", "1", "2", "3", "4", "5", "6", "7", "8", "9">>[(n % 10) + 1]
    IN IF n < 10 THEN <<d>> ELSE Append(Decimal(n \div 10), d)

\* str(x), Python 2: a unicode is encoded with the ascii codec
str(x) ==
    CASE x.t = "str" -> Return(x)
      [] x.t = "unicode" ->
            IF \A i \in 1..Len(x.v) : x.v[i] \notin NonAscii
            THEN Return(PyStr(x.v))
            ELSE Raise("UnicodeEncodeError", "'ascii' codec can't encode character")
      [] x.t = "int" -> Return(PyStr(Decimal(x.v)))
      [] x.t = "NoneType" -> Return(PyStr(<<"N", "o", "n", "e">>))

\* text.replace(old, new) for a one-character old
RECURSIVE replace_chars(_, _, _)
replace_chars(chars, old, new) ==
    IF chars = <<>> THEN <<>>
    ELSE (IF Head(chars) = old THEN new ELSE <<Head(chars)>>)
         \o replace_chars(Tail(chars), old, new)

\* key.replace('/', new): only text has a replace method
replace(key, old, new) ==
    IF key.t \in {"str", "unicode"}
    THEN Return([t |-> key.t, v |-> replace_chars(key.v, old, new)])
    ELSE Raise("AttributeError", "object has no attribute 'replace'")

\* separator.join(parts), parts a sequence of str
RECURSIVE join(_, _)
join(separator, parts) ==
    IF parts = <<>> THEN <<>>
    ELSE IF Len(parts) = 1 THEN parts[1].v
    ELSE parts[1].v \o separator \o join(separator, Tail(parts))

\* d.update(other)
dict_update(d, other) ==
    [k \in DOMAIN d \cup DOMAIN other |-> IF k \in DOMAIN other THEN other[k] ELSE d[k]]

\* d[k] = val
dict_set(d, k, val) ==
    [j \in DOMAIN d \cup {k} |-> IF j = k THEN val ELSE d[j]]

\* hasattr(child, '__iter__'): dict and list have it, Python 2 text and scalars do not
has_iter(child) == child.t \in {"dict", "list"}

-----------------------------------------------------------------------------
(* key_filter: the default method and the overrides a subclass may give *)

\* Python's ==  between a key and a text literal
text_eq(key, chars) == key.t \in {"str", "unicode"} /\ key.v = chars

\* "default"      return key
\* "skip_s"       return False for the key 's', else the key
\* "str"          return str(key)
\* "skip_s_str"   return False for the key 's', else str(key)
\* "raise_r"      raise KeyError for the key 'r', else return the key
KeyFilters == {"default", "skip_s", "str", "skip_s_str", "raise_r"}

key_filter_call(f, key) ==
    CASE f = "default" -> Return(key)
      [] f = "skip_s" -> IF text_eq(key, <<"s">>) THEN Return(PyBool(FALSE)) ELSE Return(key)
      [] f = "str" -> str(key)
      [] f = "skip_s_str" -> IF text_eq(key, <<"s">>) THEN Return(PyBool(FALSE)) ELSE str(key)
      [] f = "raise_r" -> IF text_eq(key, <<"r">>) THEN Raise("KeyError", "r") ELSE Return(key)

\* callable(key_filter_callback): the default argument None is not
callable(cb) == cb # "None"

\* (a skip test that takes None, not False, for the sentinel)
key_is_None(key) == key.t = "NoneType"

\* key is False
key_is_False(key) == key.t = "bool" /\ key.v = FALSE

-----------------------------------------------------------------------------
(* flatten_object *)

\* (an iterator that takes a scalar for a one-item container with an empty key)
iterator_unnamed(node) ==
    CASE node.t = "dict" -> Return(node.v)
      [] node.t = "list" -> Return([i \in 1..Len(node.v) |-> <<PyInt(i - 1), node.v[i]>>])
      [] node.t \in {"unicode", "str"} ->
            Return([i \in 1..Len(node.v) |-> <<PyInt(i - 1), [t |-> node.t, v |-> <<node.v[i]>>]>>])
      [] OTHER -> Return(<< <<PyStr(<<>>), node>> >>)

\* node.iteritems(), or enumerate(node) when node has no iteritems
iterator(node) ==
    CASE node.t = "dict" -> Return(node.v)
      [] node.t = "list" -> Return([i \in 1..Len(node.v) |-> <<PyInt(i - 1), node.v[i]>>])
      [] node.t \in {"unicode", "str"} ->
            Return([i \in 1..Len(node.v) |-> <<PyInt(i - 1), [t |-> node.t, v |-> <<node.v[i]>>]>>])
      [] OTHER -> Raise("TypeError", "object is not iterable")

\* what a flatten_object call gives: the dict it returns (val) or the exception
\* it raises (exc); partial is the local dict `flattened` of the frames that were
\* unwound, which the exception discards
Flattened(d) == [exc |-> NoExc, val |-> d, partial |-> d]
Unwound(e, d) == [exc |-> e, val |-> EmptyDict, partial |-> d]

RECURSIVE flatten_object(_, _, _, _, _)
RECURSIVE flatten_loop(_, _, _, _, _, _, _)

\* the body of `for key, child in iterator`, from item i on
flatten_loop(self_sep, items, i, separator, cb, parent_keys, flattened) ==
    IF i > Len(items) THEN Flattened(flattened)
    ELSE
      LET child == items[i][2]
          filtered == IF callable(cb) THEN key_filter_call(cb, items[i][1])
                      ELSE Return(items[i][1])
      IN
      IF filtered.exc # NoExc THEN Unwound(filtered.exc, flattened)
      ELSE IF key_is_False(filtered.val)
      THEN flatten_loop(self_sep, items, i + 1, separator, cb, parent_keys, flattened)
      ELSE
        LET replaced == replace(filtered.val, "/", self_sep) IN
        IF replaced.exc # NoExc THEN Unwound(replaced.exc, flattened)
        ELSE
          LET key_str == str(replaced.val) IN
          IF key_str.exc # NoExc THEN Unwound(key_str.exc, flattened)
          ELSE IF has_iter(child)
          THEN
            LET sub == flatten_object(self_sep, child, separator, cb,
                                      Append(parent_keys, key_str.val))
            IN IF sub.exc # NoExc
               THEN Unwound(sub.exc, dict_update(flattened, sub.partial))
               ELSE flatten_loop(self_sep, items, i + 1, separator, cb, parent_keys,
                                 dict_update(flattened, sub.val))
          ELSE
            LET final_key == join(separator, Append(parent_keys, key_str.val))
            IN flatten_loop(self_sep, items, i + 1, separator, cb, parent_keys,
                            dict_set(flattened, final_key, child))

\* self.flatten_object(node, separator, key_filter_callback, parent_keys);
\* self_sep is self.key_separator
flatten_object(self_sep, node, separator, cb, parent_keys) ==
    LET it == iterator(node) IN
    IF it.exc # NoExc THEN Unwound(it.exc, EmptyDict)
    ELSE flatten_loop(self_sep, it.val, 1, separator, cb, parent_keys, EmptyDict)

-----------------------------------------------------------------------------
(* json.loads *)

U(chars) == PyUnicode(chars)

\* The lines of the model that are JSON documents, each with the value
\* json.loads gives for it (text is unicode; a dict is in its iteration order).
JsonTable == <<
    <<"{\"a\":1}",           PyDict(<< <<U(<<"a">>), PyInt(1)>> >>)>>,
    <<"{\"a\":2}",           PyDict(<< <<U(<<"a">>), PyInt(2)>> >>)>>,
    <<"{\"a\":1,\"b\":2}",   PyDict(<< <<U(<<"a">>), PyInt(1)>>, <<U(<<"b">>), PyInt(2)>> >>)>>,
    <<"{\"a\":3,\"r\":2}",   PyDict(<< <<U(<<"a">>), PyInt(3)>>, <<U(<<"r">>), PyInt(2)>> >>)>>,
    <<"{\"a\":[1.5]}",       PyDict(<< <<U(<<"a">>), PyList(<<PyFloat("1.5")>>)>> >>)>>,
    <<"{\"x/y\":true}",      PyDict(<< <<U(<<"x", "/", "y">>), PyBool(TRUE)>> >>)>>,
    <<"{\"b\":\"x\"}",       PyDict(<< <<U(<<"b">>), U(<<"x">>)>> >>)>>,
    <<"{\"b\":\"\\u00e9\"}", PyDict(<< <<U(<<"b">>), U(<<"U+00E9">>)>> >>)>>,
    <<"{\"a\":123456789012345678901,\"b\":null}",
          PyDict(<< <<U(<<"a">>), PyLong("123456789012345678901")>>,
                    <<U(<<"b">>), PyNone>> >>)>>,
    <<"5",                   PyInt(5)>>,
    <<"null",                PyNone>>,
    <<"\"ab\"",              U(<<"a", "b">>)>>,
    <<"\"\"",                U(<<>>)>>
>>

\* lines that are not JSON documents
InvalidLines == {"", "{"}

JsonLines == {JsonTable[i][1] : i \in 1..Len(JsonTable)}

Lines == JsonLines \cup InvalidLines

json_loads(line) ==
    IF line \in JsonLines
    THEN Return(JsonTable[CHOOSE i \in 1..Len(JsonTable) : JsonTable[i][1] = line][2])
    ELSE Raise("ValueError", "No JSON object could be decoded")

-----------------------------------------------------------------------------
(* The parser instance: self is [metrics, key_separator, key_filter] *)

\* (parse_line keeping the value a key already has)
parse_line_first_wins(self, line) ==
    LET json_data == json_loads(line) IN
    IF json_data.exc # NoExc THEN [metrics |-> self.metrics, exc |-> json_data.exc]
    ELSE
      LET flat == flatten_object(self.key_separator, json_data.val,
                                 self.key_separator, self.key_filter, <<>>)
      IN IF flat.exc # NoExc
         THEN [metrics |-> self.metrics, exc |-> flat.exc]
         ELSE [metrics |-> dict_update(flat.val, self.metrics), exc |-> NoExc]

\* (parse_line assigning the flattened dict to self.metrics)
parse_line_assigns(self, line) ==
    LET json_data == json_loads(line) IN
    IF json_data.exc # NoExc THEN [metrics |-> self.metrics, exc |-> json_data.exc]
    ELSE
      LET flat == flatten_object(self.key_separator, json_data.val,
                                 self.key_separator, self.key_filter, <<>>)
      IN IF flat.exc # NoExc
         THEN [metrics |-> self.metrics, exc |-> flat.exc]
         ELSE [metrics |-> flat.val, exc |-> NoExc]

\* (parse_line with the traversal writing into self.metrics as it goes)
parse_line_writes_through(self, line) ==
    LET json_data == json_loads(line) IN
    IF json_data.exc # NoExc THEN [metrics |-> self.metrics, exc |-> json_data.exc]
    ELSE
      LET flat == flatten_object(self.key_separator, json_data.val,
                                 self.key_separator, self.key_filter, <<>>)
      IN [metrics |-> dict_update(self.metrics, flat.partial), exc |-> flat.exc]

\* parse_line(self, line): self.metrics after the call, and the exception raised
parse_line(self, line) ==
    LET json_data == json_loads(line) IN
    IF json_data.exc # NoExc THEN [metrics |-> self.metrics, exc |-> json_data.exc]
    ELSE
      LET flat == flatten_object(self.key_separator, json_data.val,
                                 self.key_separator, self.key_filter, <<>>)
      IN IF flat.exc # NoExc
         THEN [metrics |-> self.metrics, exc |-> flat.exc]
         ELSE [metrics |-> dict_update(self.metrics, flat.val), exc |-> NoExc]

\* MetricObject(metric_name, metric_value, type=metric_type)
MetricObject(name, value, type) == [name |-> name, value |-> value, type |-> type]

\* isinstance(value, int) or isinstance(value, long): bool is a subclass of int
is_int_or_long(value) == value.t \in {"int", "long", "bool"}

\* int(value) of a bool
int_of_bool(value) == PyInt(IF value.v THEN 1 ELSE 0)

\* the if/elif/else of get_state's loop: the rebound metric_value and metric_type
classify(metric_value) ==
    IF metric_value.t = "float" THEN Return([value |-> metric_value, type |-> "float"])
    ELSE IF is_int_or_long(metric_value)
    THEN Return([value |-> IF metric_value.t = "bool" THEN int_of_bool(metric_value)
                           ELSE metric_value,
                 type |-> "int32"])
    ELSE LET text == str(metric_value) IN
         IF text.exc # NoExc THEN text
         ELSE Return([value |-> text.val, type |-> "string"])

\* d.items(): the items of a dict in its (arbitrary, fixed) iteration order
RECURSIVE dict_items(_)
dict_items(d) ==
    IF DOMAIN d = {} THEN <<>>
    ELSE LET k == CHOOSE j \in DOMAIN d : TRUE
         IN <<<<k, d[k]>>>> \o dict_items([j \in DOMAIN d \ {k} |-> d[j]])

\* the loop of get_state from item i on; metric_objects is the list so far
RECURSIVE get_state_loop(_, _, _)
get_state_loop(items, i, metric_objects) ==
    IF i > Len(items) THEN Return(metric_objects)
    ELSE LET c == classify(items[i][2]) IN
         IF c.exc # NoExc THEN c
         ELSE get_state_loop(items, i + 1,
                  Append(metric_objects, MetricObject(items[i][1], c.val.value, c.val.type)))

\* (get_state storing each converted value back into self.metrics)
get_state_converts_in_place(self, d) ==
    LET out == get_state_loop(dict_items(self.metrics), 1, <<>>) IN
    [metrics |-> [k \in DOMAIN self.metrics |->
                    IF classify(self.metrics[k]).exc = NoExc
                    THEN classify(self.metrics[k]).val.value
                    ELSE self.metrics[k]],
     duration |-> d, exc |-> out.exc,
     ret |-> IF out.exc = NoExc THEN out.val ELSE <<>>]

\* get_state(self, duration): self.metrics and self.duration after the call,
\* the list returned (ret) or the exception raised
get_state(self, d) ==
    LET out == get_state_loop(dict_items(self.metrics), 1, <<>>) IN
    [metrics |-> self.metrics, duration |-> d, exc |-> out.exc,
     ret |-> IF out.exc = NoExc THEN out.val ELSE <<>>]

-----------------------------------------------------------------------------
(* The parser's state machine: one instance, called by logster line by line *)

\* --key-separator: the default '.', another separator, and '/', which the
\* option's help text forbids and __init__ does not reject
Separators == {<<".">>, <<"_">>, <<"/">>}

self == [metrics |-> metrics, key_separator |-> key_separator, key_filter |-> key_filter]

NoCall == [method |-> "none", line |-> "", duration |-> 0]
NoFlattenCall == [node |-> PyNone, separator |-> <<>>, cb |-> "None"]
NoFlattenRet == [done |-> FALSE, exc |-> NoExc, val |-> EmptyDict, partial |-> EmptyDict]

\* __init__: self.metrics = {}, self.key_separator from the options
Init ==
    /\ \/ key_separator \in Separators /\ key_filter = "default"
       \/ key_separator = <<".">> /\ key_filter \in KeyFilters
    /\ metrics = EmptyDict
    /\ duration = 0
    /\ last_call = NoCall
    /\ last_exc = NoExc
    /\ last_ret = <<>>
    /\ old_metrics = EmptyDict
    /\ history = <<>>
    /\ fl_call = NoFlattenCall
    /\ fl_ret = NoFlattenRet

\* what flatten_object gives for a line parse_line decodes
line_flat(line) ==
    flatten_object(key_separator, json_loads(line).val, key_separator, key_filter, <<>>)

\* whether parse_line(line) returns
line_ok(line) == line \in JsonLines /\ line_flat(line).exc = NoExc

ParseLine(line) ==
    /\ Len(history) < MaxLines
    /\ LET r == parse_line(self, line) IN
         /\ metrics' = r.metrics
         /\ last_exc' = r.exc
    /\ old_metrics' = metrics
    /\ last_call' = [method |-> "parse_line", line |-> line, duration |-> 0]
    /\ last_ret' = <<>>
    /\ history' = IF line_ok(line) THEN Append(history, line_flat(line).val) ELSE history
    /\ UNCHANGED <<key_separator, key_filter, duration, fl_call, fl_ret>>

GetState(d) ==
    /\ LET r == get_state(self, d) IN
         /\ metrics' = r.metrics
         /\ duration' = r.duration
         /\ last_exc' = r.exc
         /\ last_ret' = r.ret
    /\ old_metrics' = metrics
    /\ last_call' = [method |-> "get_state", line |-> "", duration |-> d]
    /\ UNCHANGED <<key_separator, key_filter, history, fl_call, fl_ret>>

Next ==
    \/ \E line \in Lines : ParseLine(line)
    \/ \E d \in 1..MaxDuration : GetState(d)

Spec == Init /\ [][Next]_vars

-----------------------------------------------------------------------------
(* flatten_object called on its own: the decoded documents it is given *)

FlKeys == {<<"a">>, <<"s">>, <<"x", "/", "y">>}
FlLeaves == {PyInt(1), PyFloat("1.5"), PyNone}

\* containers of leaves
FlInner ==
    {PyDict(<<>>), PyList(<<>>), PyList(<<PyInt(2), PyInt(3)>>)}
    \cup {PyDict(<< <<U(k), l>> >>) : k \in FlKeys, l \in FlLeaves}
    \cup {PyList(<<l>>) : l \in FlLeaves}

\* the children of the two-key dicts
FlSiblings ==
    {PyInt(1), PyInt(2), PyDict(<<>>), PyList(<<PyInt(2), PyInt(3)>>),
     PyDict(<< <<U(<<"a">>), PyInt(1)>> >>)}

FlNodes ==
    FlInner
    \cup {PyDict(<< <<U(k), c>> >>) : k \in FlKeys, c \in FlInner}
    \cup {PyList(<<c>>) : c \in FlInner}
    \cup {PyDict(<< <<U(k1), c1>>, <<U(k2), c2>> >>) :
            <<k1, k2>> \in {kk \in FlKeys \X FlKeys : kk[1] # kk[2]},
            <<c1, c2>> \in FlSiblings \X FlSiblings}
    \cup { \* {"a":{"b":1,"c":[2,3]}}
           PyDict(<< <<U(<<"a">>),
                      PyDict(<< <<U(<<"b">>), PyInt(1)>>,
                                <<U(<<"c">>), PyList(<<PyInt(2), PyInt(3)>>)>> >>)>> >>),
           \* {"x/y":1,"x":{"y":2}}: two leaves whose flat keys coincide
           PyDict(<< <<U(<<"x", "/", "y">>), PyInt(1)>>,
                     <<U(<<"x">>), PyDict(<< <<U(<<"y">>), PyInt(2)>> >>)>> >>) }

\* key_filter_callback: None (the default argument) or a key_filter method
Callbacks == {"None"} \cup KeyFilters

InitFlatten ==
    /\ key_separator \in Separators
    /\ key_filter = "default"
    /\ metrics = EmptyDict
    /\ duration = 0
    /\ last_call = NoCall
    /\ last_exc = NoExc
    /\ last_ret = <<>>
    /\ old_metrics = EmptyDict
    /\ history = <<>>
    /\ fl_call \in [node : FlNodes, separator : Separators, cb : Callbacks]
    /\ fl_ret = NoFlattenRet

\* self.flatten_object(node, separator, key_filter_callback)
FlattenObject ==
    /\ ~fl_ret.done
    /\ LET r == flatten_object(key_separator, fl_call.node, fl_call.separator, fl_call.cb, <<>>)
       IN fl_ret' = [done |-> TRUE, exc |-> r.exc, val |-> r.val, partial |-> r.partial]
    /\ UNCHANGED <<key_separator, key_filter, fl_call, parser_vars>>

NextFlatten == FlattenObject

SpecFlatten == InitFlatten /\ [][NextFlatten]_vars

-----------------------------------------------------------------------------
(* What the claims speak of: the key paths and leaves of a document,        *)
(* defined on the document's structure and not by the traversal             *)

\* the same Python value
SameValue(x, y) == x.t = y.t /\ x.v = y.v

\* the same dict
SameDict(d, e) == DOMAIN d = DOMAIN e /\ \A k \in DOMAIN d : SameValue(d[k], e[k])

\* every position below node, as the sequence of keys and indexes leading to it
RECURSIVE Paths(_)
Paths(node) ==
    IF node.t = "dict"
    THEN UNION { {<<node.v[i][1]>>} \cup {<<node.v[i][1]>> \o p : p \in Paths(node.v[i][2])}
                 : i \in 1..Len(node.v) }
    ELSE IF node.t = "list"
    THEN UNION { {<<PyInt(i - 1)>>} \cup {<<PyInt(i - 1)>> \o p : p \in Paths(node.v[i])}
                 : i \in 1..Len(node.v) }
    ELSE {}

\* the value at a position
RECURSIVE At(_, _)
At(node, path) ==
    IF path = <<>> THEN node
    ELSE IF node.t = "dict"
    THEN At(node.v[CHOOSE i \in 1..Len(node.v) : SameValue(node.v[i][1], path[1])][2], Tail(path))
    ELSE At(node.v[path[1].v + 1], Tail(path))

\* the positions of the scalar and null leaves
LeafPaths(node) == {p \in Paths(node) : At(node, p).t \notin {"dict", "list"}}

\* the positions whose path passes through no key in skipped
Kept(paths, skipped) ==
    {p \in paths : \A i \in 1..Len(p) : ~(p[i].t = "unicode" /\ p[i].v \in skipped)}

\* chars with every '/' replaced by the text slash
RECURSIVE Subst(_, _)
Subst(chars, slash) ==
    IF chars = <<>> THEN <<>>
    ELSE Subst(SubSeq(chars, 1, Len(chars) - 1), slash)
         \o (IF chars[Len(chars)] = "/" THEN slash ELSE <<chars[Len(chars)]>>)

\* a path as a flat key: keys with '/' replaced by slash, indexes in decimal,
\* joined by sep
RECURSIVE PathKey(_, _, _)
PathKey(path, sep, slash) ==
    LET seg == IF path[1].t = "int" THEN Decimal(path[1].v) ELSE Subst(path[1].v, slash)
    IN IF Len(path) = 1 THEN seg ELSE seg \o sep \o PathKey(Tail(path), sep, slash)

\* the keys a callback skips
Skipped(cb) == IF cb \in {"skip_s", "skip_s_str"} THEN {<<"s">>} ELSE {}

HasSlash(chars) == \E i \in 1..Len(chars) : chars[i] = "/"

-----------------------------------------------------------------------------
(* Claims about flatten_object, checked under SpecFlatten *)

\* C1: with the identity key filter and a separator other than '/',
\* flatten_object returns exactly one entry per scalar or null leaf of the
\* document: its key is the leaf's path (keys as they are, indexes in decimal)
\* joined by the separator, its value the leaf.  (Stated for the documents
\* none of whose keys contains '/': what becomes of a '/' is C7's subject.)
C1_OneEntryPerLeaf ==
    (/\ fl_ret.done
     /\ fl_call.cb \in {"None", "default"}
     /\ fl_call.separator # <<"/">>
     /\ \A p \in Paths(fl_call.node) :
           \A i \in 1..Len(p) : p[i].t = "unicode" => ~HasSlash(p[i].v))
    => LET leaves == LeafPaths(fl_call.node)
           key(p) == PathKey(p, fl_call.separator, <<"/">>)
       IN /\ fl_ret.exc = NoExc
          /\ DOMAIN fl_ret.val = {key(p) : p \in leaves}
          /\ Cardinality(DOMAIN fl_ret.val) = Cardinality(leaves)
          /\ \A p \in leaves : SameValue(fl_ret.val[key(p)], At(fl_call.node, p))

C7_SlashBecomesSeparator ==
    (fl_ret.done /\ fl_ret.exc = NoExc /\ ~HasSlash(fl_call.separator))
    => LET leaves == Kept(LeafPaths(fl_call.node), Skipped(fl_call.cb))
       IN /\ DOMAIN fl_ret.val
                = {PathKey(p, fl_call.separator, fl_call.separator) : p \in leaves}
          /\ \A k \in DOMAIN fl_ret.val : ~HasSlash(k)

-----------------------------------------------------------------------------
(* Claims about the parser instance, checked under Spec *)

\* the text of the flat key of a one-key document
KeyA == <<"a">>
KeyB == <<"b">>

\* C2: after any sequence of parse_line calls, the keys of self.metrics are
\* the keys of the flattened dicts of the calls that returned, and each key has
\* the value it has in the latest of them that contains it.
C2_LastValueWins ==
    /\ DOMAIN metrics = UNION {DOMAIN history[i] : i \in 1..Len(history)}
    /\ \A k \in DOMAIN metrics :
          LET latest == CHOOSE i \in 1..Len(history) :
                            /\ k \in DOMAIN history[i]
                            /\ \A j \in (i + 1)..Len(history) : k \notin DOMAIN history[j]
          IN SameValue(metrics[k], history[latest][k])

\* {"a":1} then {"a":2} ends with a = 2
C2_Witness ==
    /\ Len(history) = 2
    /\ SameDict(history[1], KeyA :> PyInt(1))
    /\ SameDict(history[2], KeyA :> PyInt(2))
    /\ SameDict(metrics, KeyA :> PyInt(2))

\* and the same lines in the other order end with a = 1
C2_WitnessReversed ==
    /\ Len(history) = 2
    /\ SameDict(history[1], KeyA :> PyInt(2))
    /\ SameDict(history[2], KeyA :> PyInt(1))
    /\ SameDict(metrics, KeyA :> PyInt(1))

\* C3: a call on the instance removes no key of self.metrics, and changes the
\* value of a key only when it is a parse_line call that returns and whose
\* line's flattened dict contains the key.
C3_StickyPersistence ==
    \A k \in DOMAIN old_metrics :
        /\ k \in DOMAIN metrics
        /\ ~SameValue(metrics[k], old_metrics[k])
              => /\ last_call.method = "parse_line"
                 /\ last_exc = NoExc
                 /\ k \in DOMAIN line_flat(last_call.line).val

\* {"a":1,"b":2} then {"a":2} ends with a = 2 and b = 2
C3_Witness ==
    /\ last_call.method = "parse_line"
    /\ last_call.line = "{\"a\":2}"
    /\ SameDict(old_metrics, (KeyA :> PyInt(1)) @@ (KeyB :> PyInt(2)))
    /\ SameDict(metrics, (KeyA :> PyInt(2)) @@ (KeyB :> PyInt(2)))

\* C4: a parse_line call that raises (json.loads rejects the line, or the
\* traversal raises part-way) leaves self.metrics as it was; and parse_line
\* raises exactly when the decoding or the flattening of the line does.
C4_FailureIsolation ==
    last_call.method = "parse_line"
    => /\ (last_exc # NoExc) <=> ~line_ok(last_call.line)
       /\ last_exc # NoExc => SameDict(metrics, old_metrics)

\* the key filter raises on 'r' after 'a' was flattened to a new value, and
\* self.metrics keeps the old one
C4_Witness ==
    /\ last_call.method = "parse_line"
    /\ last_call.line = "{\"a\":3,\"r\":2}"
    /\ last_exc.cls = "KeyError"
    /\ SameDict(line_flat(last_call.line).partial, KeyA :> PyInt(3))
    /\ SameDict(old_metrics, KeyA :> PyInt(1))
    /\ SameDict(metrics, KeyA :> PyInt(1))

\* C5: parse_line of a line that is not JSON raises LogsterParsingException,
\* and the exception carries the line.
C5_ParsingException ==
    (last_call.method = "parse_line" /\ last_call.line \in InvalidLines)
    => /\ last_exc.cls = "LogsterParsingException"
       /\ last_exc.msg = last_call.line

\* the text str() gives for a value that is neither a float nor an int
TextOf(value) == IF value.t = "NoneType" THEN <<"N", "o", "n", "e">> ELSE value.v

\* C8: get_state never raises and returns exactly one record per key of
\* self.metrics, named by the key: a float is typed 'float' and unchanged, a
\* boolean has the value 0 or 1, an integer of any size is unchanged, anything
\* else is typed 'string' with its text.  (The tag of booleans and integers,
\* which the code spells 'int32', is not compared here.)
C8_TypeClassification ==
    last_call.method = "get_state"
    => /\ last_exc = NoExc
       /\ Len(last_ret) = Cardinality(DOMAIN metrics)
       /\ {last_ret[i].name : i \in 1..Len(last_ret)} = DOMAIN metrics
       /\ \A i \in 1..Len(last_ret) :
             LET m == last_ret[i]
                 value == metrics[m.name]
             IN CASE value.t = "float" ->
                        m.type = "float" /\ SameValue(m.value, value)
                  [] value.t = "bool" ->
                        /\ m.type \notin {"float", "string"}
                        /\ SameValue(m.value, PyInt(IF value.v THEN 1 ELSE 0))
                  [] value.t \in {"int", "long"} ->
                        m.type \notin {"float", "string"} /\ SameValue(m.value, value)
                  [] OTHER ->
                        m.type = "string" /\ SameValue(m.value, PyStr(TextOf(value)))

\* C9: get_state leaves self.metrics as it was, whatever the duration (which
\* it stores in self.duration), and two get_state calls in a row return the
\* same list or raise the same exception.
C9_EmissionReadsOnly ==
    /\ [](last_call.method = "get_state"
            => SameDict(metrics, old_metrics) /\ duration = last_call.duration)
    /\ [][(last_call.method = "get_state" /\ last_call'.method = "get_state")
            => (last_exc' = last_exc /\ last_ret' = last_ret)]_vars

\* get_state has reported a boolean as the integer 1 and self.metrics still
\* holds the boolean
C9_Witness ==
    /\ last_call.method = "get_state"
    /\ last_exc = NoExc
    /\ \E i \in 1..Len(last_ret) :
          /\ SameValue(last_ret[i].value, PyInt(1))
          /\ SameValue(metrics[last_ret[i].name], PyBool(TRUE))

\* the last call was parse_line on a line whose document is a bare scalar
ScalarLine ==
    /\ last_call.method = "parse_line"
    /\ last_call.line \in JsonLines
    /\ ~has_iter(json_loads(last_call.line).val)

====
